---------------------------- MODULE Spec2Model ----------------------------
(***************************************************************************)
(* Model of ClaudeIsland/Resources/claude-island-state.py: the hook        *)
(* ("reporter") that reads one lifecycle notification on standard input,   *)
(* classifies it, sends it with the shared secret over a Unix stream       *)
(* socket to the app ("authority") and, for PermissionRequest, waits for   *)
(* one reply and renders it on standard output.                            *)
(*                                                                         *)
(* Every invocation p is one run of the script.  Each step of main() and   *)
(* of send_event() that touches the outside world is one action.           *)
(***************************************************************************)
EXTENDS Integers, Sequences, FiniteSets, TLC

(***************************************************************************)
(* Bounds of the model.                                                    *)
(***************************************************************************)
\* Seconds of blocked recv() that one Tick step stands for.
TickSeconds == 100

(***************************************************************************)
(* Program constants.                                                      *)
(***************************************************************************)
TIMEOUT_SECONDS == 300
\* sock.recv(4096)
RECV_BUFSIZE == 4096
\* os.getuid() of the reporter, and the uids that can own a file.
getuid == 501
Uids == {501, 0}
\* socket.settimeout(None): blocking mode.
NoTimeout == -1

(***************************************************************************)
(* JSON / Python values.  None and JSON null are the same value.           *)
(***************************************************************************)
JNull == [t |-> "null"]
JBool(b) == [t |-> "bool", b |-> b]
JNum(n) == [t |-> "num", n |-> n]
JStr(s) == [t |-> "str", s |-> s]
\* a str held as a sequence of characters (text that the program edits)
JText(c) == [t |-> "str", chars |-> c]
JList(l) == [t |-> "list", l |-> l]
JObj(o) == [t |-> "obj", o |-> o]
EmptyDict == [k \in {} |-> JNull]

\* Python truth value of a value (used by `if response:`, `if not auth_token:`,
\* `if tool_use_id_from_event:` and `reason or "..."`).
Truthy(v) ==
    CASE v.t = "null" -> FALSE
      [] v.t = "bool" -> v.b
      [] v.t = "num" -> v.n # 0
      [] v.t = "str" -> IF "chars" \in DOMAIN v THEN Len(v.chars) > 0 ELSE v.s # ""
      [] v.t = "list" -> Len(v.l) > 0
      [] v.t = "obj" -> DOMAIN v.o # {}

\* dict.get(key, default) on a dict held as a function.
DictGet(o, k, default) == IF k \in DOMAIN o THEN o[k] ELSE default

\* d[k] = v
DictSet(o, k, v) == (k :> v) @@ o

(***************************************************************************)
(* Exceptions.  Parent gives the base class; socket.error and IOError are  *)
(* aliases of OSError, socket.timeout is a subclass of OSError.            *)
(***************************************************************************)
Parent(e) ==
    CASE e \in {"ConnectionRefusedError", "FileNotFoundError", "PermissionError",
                "BrokenPipeError", "ConnectionResetError", "IsADirectoryError",
                "socket.timeout"} -> "OSError"
      [] e \in {"JSONDecodeError", "UnicodeDecodeError"} -> "ValueError"
      [] e \in {"OSError", "ValueError", "AttributeError"} -> "Exception"
      [] OTHER -> "BaseException"

RECURSIVE IsInstance(_, _)
IsInstance(e, cls) ==
    IF e = cls THEN TRUE
    ELSE IF e \in {"BaseException", "none"} THEN FALSE
    ELSE IsInstance(Parent(e), cls)

\* except OSError as e:                      (verify_socket_security, line 38)
VerifyCatches(e) == IsInstance(e, "OSError")
\* except (OSError, IOError):                (read_auth_token, line 56)
ReadTokenCatches(e) == IsInstance(e, "OSError")
\* except (socket.error, OSError, json.JSONDecodeError):   (send_event, line 129)
SendEventCatches(e) == IsInstance(e, "OSError") \/ IsInstance(e, "JSONDecodeError")
\* except json.JSONDecodeError:              (main, line 136)
MainLoadCatches(e) == IsInstance(e, "JSONDecodeError")

(***************************************************************************)
(* Byte strings that travel as messages: standard input, the message       *)
(* written to the socket, the reply.  utf8: the bytes decode as text;      *)
(* json: the text is one JSON document, val; len: number of bytes.         *)
(***************************************************************************)
Bytes(u, j, v, n) == [utf8 |-> u, json |-> j, val |-> v, len |-> n]
EmptyBytes == Bytes(TRUE, FALSE, JNull, 0)

\* bytes.decode() / reading a text stream: the text, or UnicodeDecodeError.
Decode(b) == IF b.utf8 THEN [exc |-> "none", text |-> b]
             ELSE [exc |-> "UnicodeDecodeError", text |-> b]

\* json.loads(text): the document, or JSONDecodeError.
Loads(txt) == IF txt.json THEN [exc |-> "none", val |-> txt.val]
              ELSE [exc |-> "JSONDecodeError", val |-> JNull]

\* json.dumps(state).encode(): always ASCII text holding the dict.
DumpsEncode(st) == Bytes(TRUE, TRUE, JObj(st), 64)

\* what recv(bufsize) returns of a pending byte string: at most bufsize
\* bytes; a cut document is no longer a JSON document.
RecvBytes(b, bufsize) ==
    IF b.len <= bufsize THEN b ELSE Bytes(b.utf8, FALSE, JNull, bufsize)

(***************************************************************************)
(* Files.  st_mode carries the file type (S_IFMT bits) and the permission  *)
(* bits; content is the text of a regular file as a sequence of            *)
(* characters, utf8 tells whether the bytes decode.                        *)
(***************************************************************************)
NoFile == [exists |-> FALSE]
File(uid, mode, utf8, chars) ==
    [exists |-> TRUE, st_uid |-> uid, st_mode |-> mode, utf8 |-> utf8, chars |-> chars]

S_IFSOCK == 49152   \* 0o140000
S_IFREG == 32768    \* 0o100000
S_IFDIR == 16384    \* 0o040000

\* stat.S_IFMT(mode) = mode & 0o170000
S_IFMT(mode) == mode - (mode % 4096)
\* stat.S_ISSOCK(mode)
S_ISSOCK(mode) == S_IFMT(mode) = S_IFSOCK

\* os.path.exists(path)
PathExists(f) == f.exists

\* Whitespace removed by str.strip()
Whitespace == {" ", "\n"}

RECURSIVE LStrip(_)
LStrip(s) == IF s # <<>> /\ Head(s) \in Whitespace THEN LStrip(Tail(s)) ELSE s

RECURSIVE RStrip(_)
RStrip(s) == IF s # <<>> /\ s[Len(s)] \in Whitespace
             THEN RStrip(SubSeq(s, 1, Len(s) - 1)) ELSE s

\* str.strip()
Strip(s) == RStrip(LStrip(s))


(***************************************************************************)
(* Pure parts of the program.                                              *)
(***************************************************************************)
\* SocketStatCheck with the kind checked before the owner.
SocketStatCheckKindFirst(f) ==
    IF ~S_ISSOCK(f.st_mode) THEN "Path is not a socket"
    ELSE IF f.st_uid # getuid THEN "Socket owned by other uid"
    ELSE "ok"

\* SocketStatCheck without the owner check.
SocketStatCheckNoOwner(f) ==
    IF ~S_ISSOCK(f.st_mode) THEN "Path is not a socket" ELSE "ok"

\* verify_socket_security, lines 29-37: the checks on os.stat(SOCKET_PATH).
\* The reason of the first failing check, or "ok".
SocketStatCheck(f) ==
    IF f.st_uid # getuid THEN "Socket owned by other uid"
    ELSE IF ~S_ISSOCK(f.st_mode) THEN "Path is not a socket"
    ELSE "ok"

\* str(e) of line 39, for the OSError of a stat on a path that is gone.
StrError == "[Errno 2] No such file or directory"

\* TokenStatCheck with the mask 0o007 in place of 0o077.
TokenStatCheckOtherOnly(f) ==
    IF f.st_uid # getuid THEN "not owned by us"
    ELSE IF f.st_mode % 8 # 0 THEN "unsafe permissions"
    ELSE "ok"

\* read_auth_token, lines 47-52: the checks on os.stat(TOKEN_PATH).
\* 0o077 = 63 are the six low bits, so mode & 0o077 = mode % 64.
TokenStatCheck(f) ==
    IF f.st_uid # getuid THEN "not owned by us"
    ELSE IF f.st_mode % 64 # 0 THEN "unsafe permissions"
    ELSE "ok"

\* open(TOKEN_PATH, 'r'): the error it raises, or "none".  The owner needs
\* the owner read bit (0o400), anybody else the other read bit (0o004).
OpenError(f) ==
    IF ~PathExists(f) THEN "FileNotFoundError"
    ELSE IF S_IFMT(f.st_mode) = S_IFDIR THEN "IsADirectoryError"
    ELSE IF f.st_uid = getuid /\ (f.st_mode \div 256) % 2 = 0 THEN "PermissionError"
    ELSE IF f.st_uid # getuid /\ (f.st_mode \div 4) % 2 = 0 THEN "PermissionError"
    ELSE "none"

\* ReadStrip returning f.read() as it is.
ReadNoStrip(f) ==
    IF f.utf8 THEN [exc |-> "none", val |-> JText(f.chars)]
    ELSE [exc |-> "UnicodeDecodeError", val |-> JNull]

\* f.read().strip(), line 55: the text, or UnicodeDecodeError.
ReadStrip(f) ==
    IF f.utf8 THEN [exc |-> "none", val |-> JText(Strip(f.chars))]
    ELSE [exc |-> "UnicodeDecodeError", val |-> JNull]

\* main, lines 139-155: the state dict before the event is mapped.
BaseState(d, tty) ==
    [k \in {"session_id", "cwd", "event", "pid", "tty"} |->
        CASE k = "session_id" -> DictGet(d, "session_id", JStr("unknown"))
          [] k = "cwd" -> DictGet(d, "cwd", JStr(""))
          [] k = "event" -> DictGet(d, "hook_event_name", JStr(""))
          [] k = "pid" -> JStr("ppid")
          [] k = "tty" -> tty]

\* Suppressed testing the wrong subtype.
SuppressedIdlePrompt(d) ==
    /\ DictGet(d, "hook_event_name", JStr("")) = JStr("Notification")
    /\ DictGet(d, "notification_type", JNull) = JStr("idle_prompt")

\* main, lines 222-226: the Notification that is dropped.
Suppressed(d) ==
    /\ DictGet(d, "hook_event_name", JStr("")) = JStr("Notification")
    /\ DictGet(d, "notification_type", JNull) = JStr("permission_prompt")

\* StatusOf without the SubagentStop branch of lines 237-239.
StatusOfNoSubagentStop(d) ==
    LET event == DictGet(d, "hook_event_name", JStr(""))
        notification_type == DictGet(d, "notification_type", JNull)
    IN  CASE event = JStr("UserPromptSubmit") -> "processing"
          [] event = JStr("PreToolUse") -> "running_tool"
          [] event = JStr("PostToolUse") -> "processing"
          [] event = JStr("PermissionRequest") -> "waiting_for_approval"
          [] event = JStr("Notification") ->
                IF notification_type = JStr("idle_prompt")
                THEN "waiting_for_input" ELSE "notification"
          [] event \in {JStr("Stop"), JStr("SessionStart")} -> "waiting_for_input"
          [] event = JStr("SessionEnd") -> "ended"
          [] event = JStr("PreCompact") -> "compacting"
          [] OTHER -> "unknown"

\* main, lines 157-253: the status an event maps to.
StatusOf(d) ==
    LET event == DictGet(d, "hook_event_name", JStr(""))
        notification_type == DictGet(d, "notification_type", JNull)
    IN  CASE event = JStr("UserPromptSubmit") -> "processing"
          [] event = JStr("PreToolUse") -> "running_tool"
          [] event = JStr("PostToolUse") -> "processing"
          [] event = JStr("PermissionRequest") -> "waiting_for_approval"
          [] event = JStr("Notification") ->
                IF notification_type = JStr("idle_prompt")
                THEN "waiting_for_input" ELSE "notification"
          [] event \in {JStr("Stop"), JStr("SubagentStop"), JStr("SessionStart")} ->
                "waiting_for_input"
          [] event = JStr("SessionEnd") -> "ended"
          [] event = JStr("PreCompact") -> "compacting"
          [] OTHER -> "unknown"

\* main, lines 157-253: the state dict that is handed to send_event.
Classify(d, st) ==
    LET event == DictGet(d, "hook_event_name", JStr(""))
        s1 == DictSet(st, "status", JStr(StatusOf(d)))
        tool == DictSet(DictSet(s1, "tool", DictGet(d, "tool_name", JNull)),
                        "tool_input", DictGet(d, "tool_input", JObj(EmptyDict)))
        tool_use_id == DictGet(d, "tool_use_id", JNull)
    IN  CASE event \in {JStr("PreToolUse"), JStr("PostToolUse")} ->
                IF Truthy(tool_use_id) THEN DictSet(tool, "tool_use_id", tool_use_id)
                ELSE tool
          [] event = JStr("PermissionRequest") -> tool
          [] event = JStr("Notification") ->
                DictSet(DictSet(s1, "notification_type",
                                DictGet(d, "notification_type", JNull)),
                        "message", DictGet(d, "message", JNull))
          [] OTHER -> s1

\* main: which call of send_event the run makes: the one of line 188, whose
\* result is rendered, or the one of line 256.
AfterSendEvent(d) ==
    IF DictGet(d, "hook_event_name", JStr("")) = JStr("PermissionRequest")
    THEN "render" ELSE "main_end"

\* IsRequest testing only that the state has a status.
IsRequestAnyStatus(st) == DictGet(st, "status", JNull) # JNull

\* send_event, line 120: state.get("status") == "waiting_for_approval"
IsRequest(st) == DictGet(st, "status", JNull) = JStr("waiting_for_approval")

\* json.dumps(v) as text
Dumps(v) == Bytes(TRUE, TRUE, v, 64)

\* main, lines 196-201 and 207-215: the directive printed.
Directive(decision) ==
    JObj("hookSpecificOutput" :>
            JObj(("hookEventName" :> JStr("PermissionRequest")) @@
                 ("decision" :> decision)))

DefaultDenyMessage == JStr("Denied by user via ClaudeIsland")

\* Render with response.get("decision", "allow") in place of the default "ask".
RenderDefaultAllow(resp) ==
    IF ~Truthy(resp) THEN [exc |-> "none", out |-> <<>>]
    ELSE IF resp.t # "obj" THEN [exc |-> "AttributeError", out |-> <<>>]
    ELSE LET decision == DictGet(resp.o, "decision", JStr("allow"))
             reason == DictGet(resp.o, "reason", JStr(""))
         IN  IF decision = JStr("allow")
             THEN [exc |-> "none",
                   out |-> <<Dumps(Directive(JObj("behavior" :> JStr("allow"))))>>]
             ELSE IF decision = JStr("deny")
             THEN [exc |-> "none",
                   out |-> <<Dumps(Directive(JObj(
                               ("behavior" :> JStr("deny")) @@
                               ("message" :> IF Truthy(reason) THEN reason
                                             ELSE DefaultDenyMessage))))>>]
             ELSE [exc |-> "none", out |-> <<>>]

\* Render that forgets the reason of a deny.
RenderDropsReason(resp) ==
    IF ~Truthy(resp) THEN [exc |-> "none", out |-> <<>>]
    ELSE IF resp.t # "obj" THEN [exc |-> "AttributeError", out |-> <<>>]
    ELSE LET decision == DictGet(resp.o, "decision", JStr("ask"))
         IN  IF decision = JStr("allow")
             THEN [exc |-> "none",
                   out |-> <<Dumps(Directive(JObj("behavior" :> JStr("allow"))))>>]
             ELSE IF decision = JStr("deny")
             THEN [exc |-> "none",
                   out |-> <<Dumps(Directive(JObj(
                               ("behavior" :> JStr("deny")) @@
                               ("message" :> DefaultDenyMessage))))>>]
             ELSE [exc |-> "none", out |-> <<>>]

\* main, lines 190-220: what is printed for a response, or the exception
\* raised by response.get on a value that is no dict.
Render(resp) ==
    IF ~Truthy(resp) THEN [exc |-> "none", out |-> <<>>]
    ELSE IF resp.t # "obj" THEN [exc |-> "AttributeError", out |-> <<>>]
    ELSE LET decision == DictGet(resp.o, "decision", JStr("ask"))
             reason == DictGet(resp.o, "reason", JStr(""))
         IN  IF decision = JStr("allow")
             THEN [exc |-> "none",
                   out |-> <<Dumps(Directive(JObj("behavior" :> JStr("allow"))))>>]
             ELSE IF decision = JStr("deny")
             THEN [exc |-> "none",
                   out |-> <<Dumps(Directive(JObj(
                               ("behavior" :> JStr("deny")) @@
                               ("message" :> IF Truthy(reason) THEN reason
                                             ELSE DefaultDenyMessage))))>>]
             ELSE [exc |-> "none", out |-> <<>>]

\* sys.exit(1) of line 137, and the status of a run that ends normally or
\* by sys.exit(0), and of one that dies of an uncaught exception.
EXIT_OK == 0
EXIT_UNCAUGHT == 1
NotExited == -1
\* sys.exit(0) where line 137 has sys.exit(1).
ExitBadInputAsOk == EXIT_OK
EXIT_BAD_INPUT == 1

\* A socket left in blocking mode.
SetTimeoutNone == NoTimeout
\* sock.settimeout(TIMEOUT_SECONDS), line 115
SetTimeout == TIMEOUT_SECONDS

(***************************************************************************)
(* The inputs the model draws from.                                        *)
(***************************************************************************)
EventNames ==
    {"UserPromptSubmit", "PreToolUse", "PostToolUse", "PermissionRequest",
     "Notification", "Stop", "SubagentStop", "SessionStart", "SessionEnd",
     "PreCompact"}

EventInput(e) == JObj("hook_event_name" :> JStr(e))

\* JSON documents on standard input: every event kind, an unrecognized and a
\* missing kind, a kind that is no string, the Notification subtypes, a tool
\* event with its id, and documents that are no object.
StdinDocs ==
    {EventInput(e) : e \in EventNames \cup {"Bogus"}}
    \cup {JObj(EmptyDict), JObj("hook_event_name" :> JNum(7))}
    \cup {JObj(("hook_event_name" :> JStr("Notification")) @@
               ("notification_type" :> JStr(n))) :
            n \in {"permission_prompt", "idle_prompt", "auth_success"}}
    \cup {JObj(("hook_event_name" :> JStr("PreToolUse")) @@
               ("tool_name" :> JStr("Bash")) @@
               ("tool_use_id" :> JStr("toolu_1")))}
    \cup {JList(<<>>), JStr("PermissionRequest"), JNull}

\* Standard input: a JSON document, bytes that do not decode, text that is
\* no JSON, nothing at all.
StdinInputs ==
    {Dumps(v) : v \in StdinDocs}
    \cup {Bytes(FALSE, FALSE, JNull, 8), Bytes(TRUE, FALSE, JNull, 8), EmptyBytes}

\* What get_tty() can return.
TtyValues == {JNull, JStr("/dev/ttys001")}

\* The object at SOCKET_PATH.
SockFiles ==
    {NoFile}
    \cup {File(u, S_IFSOCK + 384, TRUE, <<>>) : u \in Uids}   \* socket, 0o600
    \cup {File(u, S_IFREG + 420, TRUE, <<>>) : u \in Uids}    \* regular file, 0o644

\* The text of the credential file.
TokenTexts ==
    {<<>>, <<" ", "\n">>, <<"a", "b">>, <<" ", "a", "b", "\n">>, <<"a", " ", "b">>}

\* Permission bits of the credential file: 0o600, 0o400, 0o200, 0o640, 0o604.
TokenModes == {384, 256, 128, 416, 388}

\* The object at TOKEN_PATH.
TokenFiles ==
    {NoFile, File(getuid, S_IFDIR + 448, TRUE, <<>>)}
    \cup {File(u, S_IFREG + m, TRUE, c) : u \in Uids, m \in TokenModes, c \in TokenTexts}
    \cup {File(u, S_IFREG + m, FALSE, <<"a", "b">>) : u \in Uids, m \in TokenModes}

\* The decisions and reasons a reply object can carry; "absent" stands for
\* a key that is missing.
ReplyDecisions ==
    {JStr("allow"), JStr("deny"), JStr("ask"), JStr("maybe"), JNum(1), JNull}
ReplyReasons == {JStr(""), JStr("x"), JNull}

ReplyObjects ==
    {JObj(EmptyDict)}
    \cup {JObj("decision" :> d) : d \in ReplyDecisions}
    \cup {JObj("reason" :> r) : r \in ReplyReasons}
    \cup {JObj(("decision" :> d) @@ ("reason" :> r)) :
            d \in ReplyDecisions, r \in ReplyReasons}

\* JSON documents a reply can hold.
ReplyDocs ==
    ReplyObjects
    \cup {JNull, JBool(TRUE), JBool(FALSE), JNum(0), JNum(5), JStr(""), JStr("allow"),
          JList(<<>>), JList(<<JStr("allow")>>)}

\* What the authority can put on the connection: a document, a document
\* longer than the receive buffer, bytes that do not decode, text that is
\* no JSON, and end of stream (recv returns b"").
ReplyBytes ==
    {Dumps(v) : v \in ReplyDocs}
    \cup {Bytes(TRUE, TRUE, JObj("decision" :> JStr("allow")), 5000),
          Bytes(FALSE, FALSE, JNull, 8), Bytes(TRUE, FALSE, JNull, 8), EmptyBytes}

NoData == [kind |-> "none"]
Reset == [kind |-> "reset"]
Data(b) == [kind |-> "data", bytes |-> b]

\* Ways connect() and sendall() can end.
ConnectOutcomes == {"ok", "ConnectionRefusedError", "FileNotFoundError", "socket.timeout"}
SendOutcomes == {"ok", "BrokenPipeError", "socket.timeout"}

(***************************************************************************)
(* State.                                                                  *)
(***************************************************************************)
\* The names a run of the script can have.
Procs == {1, 2}

VARIABLES
    invocations,     \* the runs of the script that take place
    sockFile,        \* the object at SOCKET_PATH
    tokenFile,       \* the object at TOKEN_PATH
    stdin,           \* stdin[p]: the bytes on standard input
    pc,              \* pc[p]: where run p is
    data,            \* main: data
    state,           \* main / send_event: state
    auth_token,      \* send_event: auth_token
    sock,            \* send_event: sock
    wire,            \* what p has written to its connection
    inbox,           \* what the authority has put on p's connection
    elapsed,         \* seconds p has been blocked in recv
    response_bytes,  \* send_event: response
    response,        \* main: response
    stdout,          \* what p has printed
    exitCode,        \* exit status of p
    crash,           \* the exception that ended p, and the function it left
    io,              \* the system calls p has made, in order
    verdict,         \* send_event: <<is_safe, error>>, <<>> before line 100
    opened           \* read_auth_token: f, the file that open() returned

vars == <<invocations, sockFile, tokenFile, stdin, pc, data, state, auth_token,
          sock, wire, inbox, elapsed, response_bytes, response, stdout, exitCode,
          crash, io, verdict, opened>>

envVars == <<invocations, sockFile, tokenFile, stdin>>

NoSock == [st |-> "none", timeout |-> NoTimeout, peer |-> NoTimeout]
NoCrash == [exc |-> "none", frame |-> "none"]

InitFor(ps) ==
    /\ invocations = ps
    /\ sockFile \in SockFiles
    /\ tokenFile \in TokenFiles
    /\ stdin \in [ps -> StdinInputs]
    /\ pc = [p \in ps |-> "main"]
    /\ data = [p \in ps |-> JNull]
    /\ state = [p \in ps |-> EmptyDict]
    /\ auth_token = [p \in ps |-> JNull]
    /\ sock = [p \in ps |-> NoSock]
    /\ wire = [p \in ps |-> <<>>]
    /\ inbox = [p \in ps |-> NoData]
    /\ elapsed = [p \in ps |-> 0]
    /\ response_bytes = [p \in ps |-> EmptyBytes]
    /\ response = [p \in ps |-> JNull]
    /\ stdout = [p \in ps |-> <<>>]
    /\ exitCode = [p \in ps |-> NotExited]
    /\ crash = [p \in ps |-> NoCrash]
    /\ io = [p \in ps |-> <<>>]
    /\ verdict = [p \in ps |-> <<>>]
    /\ opened = [p \in ps |-> NoFile]

Init == InitFor({1})

(***************************************************************************)
(* Control transfers.                                                      *)
(***************************************************************************)
Goto(p, label) ==
    /\ pc' = [pc EXCEPT ![p] = label]
    /\ UNCHANGED <<response, exitCode, crash>>

\* sys.exit(code), or main returning (code 0).
SysExit(p, code) ==
    /\ pc' = [pc EXCEPT ![p] = "exited"]
    /\ exitCode' = [exitCode EXCEPT ![p] = code]
    /\ UNCHANGED <<response, crash>>

\* An exception nobody catches: traceback on stderr, exit status 1.
Uncaught(p, exc, frame) ==
    /\ pc' = [pc EXCEPT ![p] = "exited"]
    /\ exitCode' = [exitCode EXCEPT ![p] = EXIT_UNCAUGHT]
    /\ crash' = [crash EXCEPT ![p] = [exc |-> exc, frame |-> frame]]
    /\ UNCHANGED response

\* send_event returns val to main.
ReturnFromSendEvent(p, val) ==
    /\ response' = [response EXCEPT ![p] = val]
    /\ pc' = [pc EXCEPT ![p] = AfterSendEvent(data[p].o)]
    /\ UNCHANGED <<exitCode, crash>>

\* An exception raised in the try block of send_event, lines 98-130.
SendEventRaise(p, exc) ==
    IF SendEventCatches(exc) THEN ReturnFromSendEvent(p, JNull)
    ELSE Uncaught(p, exc, "send_event")

Log(p, call) == io' = [io EXCEPT ![p] = Append(@, call)]

(***************************************************************************)
(* main, first part.                                                       *)
(***************************************************************************)
\* json.load(sys.stdin), line 135: the exceptions it can end with ("none":
\* it returns the document).  Bytes that do not decode raise
\* UnicodeDecodeError when the stream is strict; where the interpreter
\* opens stdin with surrogateescape they reach the parser, which rejects them.
StdinLoadErrors(b) ==
    IF ~b.utf8 THEN {"UnicodeDecodeError", "JSONDecodeError"}
    ELSE {Loads(Decode(b).text).exc}

\* lines 134-137: data = json.load(sys.stdin)
MainLoad(p) ==
    /\ p \in invocations
    /\ pc[p] = "main"
    /\ \E exc \in StdinLoadErrors(stdin[p]) :
          IF exc = "none"
          THEN /\ data' = [data EXCEPT ![p] = Loads(Decode(stdin[p]).text).val]
               /\ Goto(p, "build")
          ELSE /\ UNCHANGED data
               /\ IF MainLoadCatches(exc) THEN SysExit(p, EXIT_BAD_INPUT)
                  ELSE Uncaught(p, exc, "main")
    /\ UNCHANGED <<envVars, verdict, opened,
                   state, auth_token, sock, wire, inbox, elapsed,
                   response_bytes, stdout, io>>

\* lines 139-155: data.get(...) four times, get_tty(), the state dict
MainBuildState(p) ==
    /\ p \in invocations
    /\ pc[p] = "build"
    /\ IF data[p].t # "obj"
       THEN /\ Uncaught(p, "AttributeError", "main")
            /\ UNCHANGED state
       ELSE /\ \E tty \in TtyValues :
                 state' = [state EXCEPT ![p] = BaseState(data[p].o, tty)]
            /\ Goto(p, "classify")
    /\ UNCHANGED <<envVars, verdict, opened,
                   data, auth_token, sock, wire, inbox, elapsed,
                   response_bytes, stdout, io>>

\* lines 157-256: the event is mapped to a status; a permission_prompt
\* Notification ends the run, everything else calls send_event.
MainClassify(p) ==
    /\ p \in invocations
    /\ pc[p] = "classify"
    /\ IF Suppressed(data[p].o)
       THEN /\ SysExit(p, EXIT_OK)
            /\ UNCHANGED state
       ELSE /\ state' = [state EXCEPT ![p] = Classify(data[p].o, state[p])]
            /\ Goto(p, "verify_exists")
    /\ UNCHANGED <<envVars, verdict, opened,
                   data, auth_token, sock, wire, inbox, elapsed,
                   response_bytes, stdout, io>>

(***************************************************************************)
(* send_event: verify_socket_security.                                     *)
(***************************************************************************)
\* lines 25-26: os.path.exists(SOCKET_PATH)
VerifyExists(p) ==
    /\ p \in invocations
    /\ pc[p] = "verify_exists"
    /\ Log(p, "exists(SOCKET_PATH)")
    /\ IF PathExists(sockFile)
       THEN /\ Goto(p, "verify_stat")
            /\ UNCHANGED verdict
       ELSE /\ verdict' = [verdict EXCEPT ![p] = <<FALSE, JStr("Socket does not exist")>>]
            /\ ReturnFromSendEvent(p, JNull)
    /\ UNCHANGED <<envVars, opened,
                   data, state, auth_token, sock, wire, inbox, elapsed,
                   response_bytes, stdout>>

\* lines 29-39 and 100-103: os.stat(SOCKET_PATH), the owner and kind checks
VerifyStat(p) ==
    /\ p \in invocations
    /\ pc[p] = "verify_stat"
    /\ Log(p, "stat(SOCKET_PATH)")
    /\ IF ~PathExists(sockFile)
       THEN IF VerifyCatches("FileNotFoundError")
            THEN /\ verdict' = [verdict EXCEPT ![p] = <<FALSE, JStr(StrError)>>]
                 /\ ReturnFromSendEvent(p, JNull)
            ELSE /\ UNCHANGED verdict
                 /\ SendEventRaise(p, "FileNotFoundError")
       ELSE IF SocketStatCheck(sockFile) = "ok"
            THEN /\ verdict' = [verdict EXCEPT ![p] = <<TRUE, JNull>>]
                 /\ Goto(p, "token_exists")
            ELSE /\ verdict' = [verdict EXCEPT ![p] =
                                   <<FALSE, JStr(SocketStatCheck(sockFile))>>]
                 /\ ReturnFromSendEvent(p, JNull)
    /\ UNCHANGED <<envVars, opened,
                   data, state, auth_token, sock, wire, inbox, elapsed,
                   response_bytes, stdout>>

(***************************************************************************)
(* send_event: read_auth_token.                                            *)
(***************************************************************************)
\* read_auth_token returns val: auth_token = read_auth_token(), line 106
ReadTokenReturn(p, val) ==
    /\ auth_token' = [auth_token EXCEPT ![p] = val]
    /\ Goto(p, "check_token")

\* An exception raised in the try block of read_auth_token, lines 44-57.
ReadTokenRaise(p, exc) ==
    IF ReadTokenCatches(exc) THEN ReadTokenReturn(p, JNull)
    ELSE /\ UNCHANGED auth_token
         /\ SendEventRaise(p, exc)

\* line 46: os.path.exists(TOKEN_PATH)
ReadTokenExists(p) ==
    /\ p \in invocations
    /\ pc[p] = "token_exists"
    /\ Log(p, "exists(TOKEN_PATH)")
    /\ IF PathExists(tokenFile) THEN Goto(p, "token_stat") ELSE Goto(p, "token_open")
    /\ UNCHANGED <<envVars, verdict, opened,
                   data, state, auth_token, sock, wire, inbox, elapsed,
                   response_bytes, stdout>>

\* lines 47-52: os.stat(TOKEN_PATH), the owner and permission checks
ReadTokenStat(p) ==
    /\ p \in invocations
    /\ pc[p] = "token_stat"
    /\ Log(p, "stat(TOKEN_PATH)")
    /\ IF ~PathExists(tokenFile) THEN ReadTokenRaise(p, "FileNotFoundError")
       ELSE IF TokenStatCheck(tokenFile) = "ok"
            THEN /\ Goto(p, "token_open")
                 /\ UNCHANGED auth_token
            ELSE ReadTokenReturn(p, JNull)
    /\ UNCHANGED <<envVars, verdict, opened,
                   data, state, sock, wire, inbox, elapsed,
                   response_bytes, stdout>>

\* lines 54-55: open(TOKEN_PATH, 'r'), f.read().strip()
ReadTokenOpen(p) ==
    /\ p \in invocations
    /\ pc[p] = "token_open"
    /\ Log(p, "open(TOKEN_PATH)")
    /\ IF OpenError(tokenFile) # "none"
       THEN /\ UNCHANGED opened
            /\ ReadTokenRaise(p, OpenError(tokenFile))
       ELSE /\ opened' = [opened EXCEPT ![p] = tokenFile]
            /\ IF ReadStrip(tokenFile).exc # "none"
               THEN ReadTokenRaise(p, ReadStrip(tokenFile).exc)
               ELSE ReadTokenReturn(p, ReadStrip(tokenFile).val)
    /\ UNCHANGED <<envVars, verdict, data, state, sock, wire, inbox, elapsed,
                   response_bytes, stdout>>

(***************************************************************************)
(* send_event: the connection.                                             *)
(***************************************************************************)
\* lines 107-112: no token, no connection; else the token joins the state
CheckToken(p) ==
    /\ p \in invocations
    /\ pc[p] = "check_token"
    /\ IF ~Truthy(auth_token[p])
       THEN /\ ReturnFromSendEvent(p, JNull)
            /\ UNCHANGED state
       ELSE /\ state' = [state EXCEPT ![p] = DictSet(@, "_auth_token", auth_token[p])]
            /\ Goto(p, "socket")
    /\ UNCHANGED <<envVars, verdict, opened,
                   data, auth_token, sock, wire, inbox, elapsed,
                   response_bytes, stdout, io>>

\* CreateSocket that first unlinks SOCKET_PATH, as a server would before bind.
CreateSocketUnlinks(p) ==
    /\ p \in invocations
    /\ pc[p] = "socket"
    /\ Log(p, "socket")
    /\ sockFile' = NoFile
    /\ sock' = [sock EXCEPT ![p] = [st |-> "open", timeout |-> SetTimeout,
                                    peer |-> NoTimeout]]
    /\ Goto(p, "connect")
    /\ UNCHANGED <<invocations, tokenFile, stdin, verdict, opened,
                   data, state, auth_token, wire, inbox, elapsed,
                   response_bytes, stdout>>

\* lines 114-115: socket.socket(AF_UNIX, SOCK_STREAM), settimeout
CreateSocket(p) ==
    /\ p \in invocations
    /\ pc[p] = "socket"
    /\ Log(p, "socket")
    /\ sock' = [sock EXCEPT ![p] = [st |-> "open", timeout |-> SetTimeout,
                                    peer |-> NoTimeout]]
    /\ Goto(p, "connect")
    /\ UNCHANGED <<envVars, verdict, opened,
                   data, state, auth_token, wire, inbox, elapsed,
                   response_bytes, stdout>>

\* Connect that tries again, up to three times, when connect() fails.
ConnectRetry(p) ==
    /\ p \in invocations
    /\ pc[p] = "connect"
    /\ Log(p, "connect")
    /\ \E outcome \in ConnectOutcomes :
          IF outcome = "ok"
          THEN /\ PathExists(sockFile)
               /\ S_ISSOCK(sockFile.st_mode)
               /\ sock' = [sock EXCEPT ![p].st = "connected",
                                       ![p].peer = sockFile.st_uid]
               /\ Goto(p, "send")
          ELSE /\ UNCHANGED sock
               /\ IF Len(SelectSeq(io[p], LAMBDA c : c = "connect")) < 2
                  THEN Goto(p, "connect")
                  ELSE SendEventRaise(p, outcome)
    /\ UNCHANGED <<envVars, verdict, opened,
                   data, state, auth_token, wire, inbox, elapsed,
                   response_bytes, stdout>>

\* line 116: sock.connect(SOCKET_PATH).  It can succeed only on a socket;
\* peer records the owner of the object it connected to.
Connect(p) ==
    /\ p \in invocations
    /\ pc[p] = "connect"
    /\ Log(p, "connect")
    /\ \E outcome \in ConnectOutcomes :
          IF outcome = "ok"
          THEN /\ PathExists(sockFile)
               /\ S_ISSOCK(sockFile.st_mode)
               /\ sock' = [sock EXCEPT ![p].st = "connected",
                                       ![p].peer = sockFile.st_uid]
               /\ Goto(p, "send")
          ELSE /\ UNCHANGED sock
               /\ SendEventRaise(p, outcome)
    /\ UNCHANGED <<envVars, verdict, opened,
                   data, state, auth_token, wire, inbox, elapsed,
                   response_bytes, stdout>>

\* lines 117-120: sock.sendall(json.dumps(state).encode()), then the test
\* that decides whether a reply is awaited
Sendall(p) ==
    /\ p \in invocations
    /\ pc[p] = "send"
    /\ Log(p, "sendall")
    /\ \E outcome \in SendOutcomes :
          IF outcome = "ok"
          THEN /\ wire' = [wire EXCEPT ![p] = Append(@, DumpsEncode(state[p]))]
               /\ Goto(p, IF IsRequest(state[p]) THEN "recv" ELSE "close")
          ELSE /\ UNCHANGED wire
               /\ SendEventRaise(p, outcome)
    /\ UNCHANGED <<envVars, verdict, opened,
                   data, state, auth_token, sock, inbox, elapsed,
                   response_bytes, stdout>>

\* Recv taking the bytes waiting on any run's connection.
RecvShared(p) ==
    /\ p \in invocations
    /\ pc[p] = "recv"
    /\ Log(p, "recv")
    /\ \E q \in invocations :
          /\ inbox[q].kind = "data"
          /\ response_bytes' =
                [response_bytes EXCEPT ![p] = RecvBytes(inbox[q].bytes, RECV_BUFSIZE)]
          /\ inbox' = [inbox EXCEPT ![q] = NoData]
    /\ Goto(p, "close_parse")
    /\ UNCHANGED <<envVars, verdict, opened,
                   data, state, auth_token, sock, wire, elapsed, stdout>>

\* line 121: response = sock.recv(4096) returns what the authority sent, or
\* raises because the peer reset the connection
Recv(p) ==
    /\ p \in invocations
    /\ pc[p] = "recv"
    /\ inbox[p].kind # "none"
    /\ Log(p, "recv")
    /\ IF inbox[p].kind = "reset"
       THEN /\ SendEventRaise(p, "ConnectionResetError")
            /\ UNCHANGED <<response_bytes, inbox>>
       ELSE /\ response_bytes' =
                  [response_bytes EXCEPT ![p] = RecvBytes(inbox[p].bytes, RECV_BUFSIZE)]
            /\ inbox' = [inbox EXCEPT ![p] = NoData]
            /\ Goto(p, "close_parse")
    /\ UNCHANGED <<envVars, verdict, opened,
                   data, state, auth_token, sock, wire, elapsed, stdout>>

\* line 121: sock.recv(4096) raises socket.timeout after the timeout set on
\* the socket; a socket without timeout blocks
RecvTimeout(p) ==
    /\ p \in invocations
    /\ pc[p] = "recv"
    /\ inbox[p].kind = "none"
    /\ sock[p].timeout # NoTimeout
    /\ elapsed[p] >= sock[p].timeout
    /\ Log(p, "recv")
    /\ SendEventRaise(p, "socket.timeout")
    /\ UNCHANGED <<envVars, verdict, opened,
                   data, state, auth_token, sock, wire, inbox, elapsed,
                   response_bytes, stdout>>

\* time passes while recv blocks
Tick(p) ==
    /\ p \in invocations
    /\ pc[p] = "recv"
    /\ inbox[p].kind = "none"
    /\ elapsed[p] < TIMEOUT_SECONDS
    /\ elapsed' = [elapsed EXCEPT ![p] = @ + TickSeconds]
    /\ UNCHANGED <<envVars, verdict, opened,
                   pc, data, state, auth_token, sock, wire, inbox,
                   response_bytes, response, stdout, exitCode, crash, io>>

\* lines 122-124: sock.close(); if response: return json.loads(response.decode())
CloseParse(p) ==
    /\ p \in invocations
    /\ pc[p] = "close_parse"
    /\ Log(p, "close")
    /\ sock' = [sock EXCEPT ![p].st = "closed"]
    /\ IF response_bytes[p].len > 0
       THEN LET dec == Decode(response_bytes[p])
                ld == Loads(dec.text)
            IN  IF dec.exc # "none" THEN SendEventRaise(p, dec.exc)
                ELSE IF ld.exc # "none" THEN SendEventRaise(p, ld.exc)
                ELSE ReturnFromSendEvent(p, ld.val)
       ELSE ReturnFromSendEvent(p, JNull)
    /\ UNCHANGED <<envVars, verdict, opened,
                   data, state, auth_token, wire, inbox, elapsed,
                   response_bytes, stdout>>

\* lines 125-128: sock.close(); return None
Close(p) ==
    /\ p \in invocations
    /\ pc[p] = "close"
    /\ Log(p, "close")
    /\ sock' = [sock EXCEPT ![p].st = "closed"]
    /\ ReturnFromSendEvent(p, JNull)
    /\ UNCHANGED <<envVars, verdict, opened,
                   data, state, auth_token, wire, inbox, elapsed,
                   response_bytes, stdout>>

(***************************************************************************)
(* main, after send_event.                                                 *)
(***************************************************************************)
\* lines 190-220: the reply is rendered and the run ends
MainRender(p) ==
    /\ p \in invocations
    /\ pc[p] = "render"
    /\ IF Render(response[p]).exc # "none"
       THEN /\ Uncaught(p, Render(response[p]).exc, "main")
            /\ UNCHANGED stdout
       ELSE /\ stdout' = [stdout EXCEPT ![p] = @ \o Render(response[p]).out]
            /\ SysExit(p, EXIT_OK)
    /\ UNCHANGED <<envVars, verdict, opened,
                   data, state, auth_token, sock, wire, inbox, elapsed,
                   response_bytes, io>>

\* line 256: send_event(state) was the last statement of main
MainEnd(p) ==
    /\ p \in invocations
    /\ pc[p] = "main_end"
    /\ SysExit(p, EXIT_OK)
    /\ UNCHANGED <<envVars, verdict, opened,
                   data, state, auth_token, sock, wire, inbox, elapsed,
                   response_bytes, stdout, io>>

(***************************************************************************)
(* The authority, at the other end of a connection: it may answer what it  *)
(* got with any bytes, close, or reset the connection, or stay silent.     *)
(***************************************************************************)
AuthorityReply(p) ==
    /\ p \in invocations
    /\ sock[p].st = "connected"
    /\ pc[p] \in {"recv", "close"}
    /\ inbox[p].kind = "none"
    /\ \E r \in {Data(b) : b \in ReplyBytes} \cup {Reset} :
          inbox' = [inbox EXCEPT ![p] = r]
    /\ UNCHANGED <<envVars, verdict, opened,
                   pc, data, state, auth_token, sock, wire, elapsed,
                   response_bytes, response, stdout, exitCode, crash, io>>

(***************************************************************************)
(* The other processes of the machine.  The script reaches both files by   *)
(* path each time (exists, stat, open, connect), so what it finds is       *)
(* whatever is at the path at that moment.                                 *)
(***************************************************************************)
\* What another process can leave at TOKEN_PATH: nothing, the user's own
\* credential (0o600), the same made group readable (0o640), and a world
\* readable file of another user (0o644).
RaceTokenFiles ==
    {NoFile,
     File(getuid, S_IFREG + 384, TRUE, <<"a", "b">>),
     File(getuid, S_IFREG + 416, TRUE, <<"a", "b">>),
     File(0, S_IFREG + 420, TRUE, <<"a", " ", "b">>)}

\* The events the racing runs report: one that waits for a reply, one that
\* does not.
RaceStdin == {Dumps(EventInput("PermissionRequest")), Dumps(EventInput("Stop"))}

\* Another process removes, creates or replaces the object at SOCKET_PATH.
ReplaceSocket ==
    /\ \E f \in SockFiles \ {sockFile} : sockFile' = f
    /\ UNCHANGED <<invocations, tokenFile, stdin, verdict, opened, pc, data,
                   state, auth_token, sock, wire, inbox, elapsed, response_bytes,
                   response, stdout, exitCode, crash, io>>

\* Another process removes, creates, replaces or re-permissions the file at
\* TOKEN_PATH.
ReplaceToken ==
    /\ \E f \in RaceTokenFiles \ {tokenFile} : tokenFile' = f
    /\ UNCHANGED <<invocations, sockFile, stdin, verdict, opened, pc, data,
                   state, auth_token, sock, wire, inbox, elapsed, response_bytes,
                   response, stdout, exitCode, crash, io>>

(***************************************************************************)
(* Specifications.                                                         *)
(***************************************************************************)
\* A step of run p of the script (time passing in recv included).
ReporterStep(p) ==
    \/ MainLoad(p) \/ MainBuildState(p) \/ MainClassify(p)
    \/ VerifyExists(p) \/ VerifyStat(p)
    \/ ReadTokenExists(p) \/ ReadTokenStat(p) \/ ReadTokenOpen(p)
    \/ CheckToken(p) \/ CreateSocket(p) \/ Connect(p) \/ Sendall(p)
    \/ Recv(p) \/ RecvTimeout(p) \/ Tick(p) \/ CloseParse(p) \/ Close(p)
    \/ MainRender(p) \/ MainEnd(p)

Program == \E p \in Procs : ReporterStep(p)

Next ==
    \E p \in Procs :
        \/ MainLoad(p)
        \/ MainBuildState(p)
        \/ MainClassify(p)
        \/ VerifyExists(p)
        \/ VerifyStat(p)
        \/ ReadTokenExists(p)
        \/ ReadTokenStat(p)
        \/ ReadTokenOpen(p)
        \/ CheckToken(p)
        \/ CreateSocket(p)
        \/ Connect(p)
        \/ Sendall(p)
        \/ Recv(p)
        \/ RecvTimeout(p)
        \/ Tick(p)
        \/ CloseParse(p)
        \/ Close(p)
        \/ MainRender(p)
        \/ MainEnd(p)
        \/ AuthorityReply(p)

Spec == Init /\ [][Next]_vars

\* The interpreter keeps running the script and the clock keeps running;
\* nothing is assumed of the authority.
LiveSpec == Init /\ [][Next]_vars /\ WF_vars(Program)

\* One run, with the other processes changing the two paths under it.
RaceInit ==
    /\ InitFor({1})
    /\ tokenFile \in RaceTokenFiles
    /\ \A p \in invocations : stdin[p] \in RaceStdin

RaceNext == Next \/ ReplaceSocket \/ ReplaceToken

RaceSpec == RaceInit /\ [][RaceNext]_vars

\* Two runs of the script at the same time, interleaved in every way, with
\* a usable endpoint and credential; the events may be the same.
PairInit ==
    /\ sockFile = File(getuid, S_IFSOCK + 384, TRUE, <<>>)
    /\ tokenFile = File(getuid, S_IFREG + 384, TRUE, <<"a", "b">>)
    /\ stdin \in [Procs -> RaceStdin]
    /\ InitFor(Procs)

\* What the authority answers the two runs with: allow, deny with a reason,
\* ask, a JSON string, bytes that do not decode, end of stream.
PairReplyBytes ==
    {Dumps(JObj("decision" :> JStr(d))) : d \in {"allow", "ask"}}
    \cup {Dumps(JObj(("decision" :> JStr("deny")) @@ ("reason" :> JStr("x")))),
          Dumps(JStr("allow")), Bytes(FALSE, FALSE, JNull, 8), EmptyBytes}

\* The authority answers the connection of run p.
PairAuthorityReply(p) ==
    /\ p \in invocations
    /\ sock[p].st = "connected"
    /\ pc[p] \in {"recv", "close"}
    /\ inbox[p].kind = "none"
    /\ \E r \in {Data(b) : b \in PairReplyBytes} \cup {Reset} :
          inbox' = [inbox EXCEPT ![p] = r]
    /\ UNCHANGED <<envVars, verdict, opened,
                   pc, data, state, auth_token, sock, wire, elapsed,
                   response_bytes, response, stdout, exitCode, crash, io>>

PairNext ==
    \E p \in Procs :
        \/ MainLoad(p)
        \/ MainBuildState(p)
        \/ MainClassify(p)
        \/ VerifyExists(p)
        \/ VerifyStat(p)
        \/ ReadTokenExists(p)
        \/ ReadTokenStat(p)
        \/ ReadTokenOpen(p)
        \/ CheckToken(p)
        \/ CreateSocket(p)
        \/ Connect(p)
        \/ Sendall(p)
        \/ Recv(p)
        \/ RecvTimeout(p)
        \/ Tick(p)
        \/ CloseParse(p)
        \/ Close(p)
        \/ MainRender(p)
        \/ MainEnd(p)
        \/ PairAuthorityReply(p)

PairSpec == PairInit /\ [][PairNext]_vars

(***************************************************************************)
(* Vocabulary of the properties.                                           *)
(***************************************************************************)
Exited(p) == pc[p] = "exited"

\* The calls of io[p] as a set.
Calls(p) == {io[p][i] : i \in 1..Len(io[p])}

\* The labels at which run p is inside send_event.
InSendEvent ==
    {"verify_exists", "verify_stat", "token_exists", "token_stat", "token_open",
     "check_token", "socket", "connect", "send", "recv", "close_parse", "close"}

\* send_event has returned to main (the run is at, or past, the statement
\* after the call).
Returned(p) ==
    \/ pc[p] \in {"render", "main_end"}
    \/ Exited(p) /\ io[p] # <<>> /\ crash[p].frame # "send_event"

\* Standard input holds a JSON object.
StdinIsObject(p) == stdin[p].utf8 /\ stdin[p].json /\ stdin[p].val.t = "obj"

\* The event kind given on standard input is PermissionRequest.
StdinIsPermissionRequest(p) ==
    /\ StdinIsObject(p)
    /\ "hook_event_name" \in DOMAIN stdin[p].val.o
    /\ stdin[p].val.o["hook_event_name"] = JStr("PermissionRequest")

\* SOCKET_PATH is absent, owned by somebody else, or no socket.
EndpointUnsafe ==
    \/ ~sockFile.exists
    \/ sockFile.st_uid # getuid
    \/ sockFile.st_mode - (sockFile.st_mode % 4096) # S_IFSOCK

\* TOKEN_PATH exists and has a group or other permission bit set, or is
\* owned by somebody else.
CredentialUnsafe ==
    /\ tokenFile.exists
    /\ \/ tokenFile.st_uid # getuid
       \/ \E bit \in {1, 2, 4, 8, 16, 32} : (tokenFile.st_mode \div bit) % 2 = 1

(***************************************************************************)
(* C1.  While the endpoint path is absent, owned by another uid or not a   *)
(* socket, send_event makes no system call but exists/stat of the          *)
(* endpoint: it never touches the credential file, creates no socket,      *)
(* writes nothing, and what it returns is None.                            *)
(***************************************************************************)
C1_UnsafeEndpointNoIO ==
    \A p \in invocations :
        EndpointUnsafe =>
            /\ Calls(p) \subseteq {"exists(SOCKET_PATH)", "stat(SOCKET_PATH)"}
            /\ sock[p].st = "none"
            /\ wire[p] = <<>>
            /\ auth_token[p] = JNull
            /\ pc[p] \in InSendEvent => pc[p] \in {"verify_exists", "verify_stat"}
            /\ crash[p].frame # "send_event"
            /\ Returned(p) => response[p] = JNull

\* send_event has returned on an endpoint that is a socket of another user.
C1_Witness ==
    \E p \in invocations :
        /\ sockFile.exists
        /\ sockFile.st_uid # getuid
        /\ S_ISSOCK(sockFile.st_mode)
        /\ tokenFile.exists
        /\ Returned(p)
        /\ io[p] = <<"exists(SOCKET_PATH)", "stat(SOCKET_PATH)">>

(***************************************************************************)
(* C2.  While the credential file has a group/other permission bit set or  *)
(* another owner, read_auth_token yields None whatever the file holds:     *)
(* the file is never opened, no socket is created, no message is sent or   *)
(* even given a token, and send_event returns None.                        *)
(***************************************************************************)
C2_UnsafeCredentialAbsent ==
    \A p \in invocations :
        CredentialUnsafe =>
            /\ auth_token[p] = JNull
            /\ "open(TOKEN_PATH)" \notin Calls(p)
            /\ "_auth_token" \notin DOMAIN state[p]
            /\ sock[p].st = "none"
            /\ "socket" \notin Calls(p) /\ "connect" \notin Calls(p)
            /\ wire[p] = <<>>
            /\ crash[p].frame # "send_event"
            /\ Returned(p) => response[p] = JNull

\* send_event has returned after the stat of a credential file that the
\* reporter owns, that holds a usable token and that the group may read.
C2_Witness ==
    \E p \in invocations :
        /\ tokenFile.exists
        /\ tokenFile.st_uid = getuid
        /\ tokenFile.st_mode = S_IFREG + 416
        /\ tokenFile.utf8 /\ tokenFile.chars = <<"a", "b">>
        /\ "stat(TOKEN_PATH)" \in Calls(p)
        /\ Returned(p)
        /\ response[p] = JNull

(***************************************************************************)
(* C3.  A run whose standard input is a JSON notification exits with       *)
(* status 0, whatever the endpoint, the credential and the authority do.   *)
(***************************************************************************)
C3_NotificationExitsZero ==
    \A p \in invocations :
        (Exited(p) /\ StdinIsObject(p)) => exitCode[p] = 0

(***************************************************************************)
(* C4.  Once send_event has started the transport (it has called           *)
(* connect), every error of connect, sendall, recv and of reading the      *)
(* reply ends in send_event returning None: no exception leaves            *)
(* send_event.                                                             *)
(***************************************************************************)
C4_TransportErrorsAbsorbed ==
    \A p \in invocations :
        "connect" \in Calls(p) => crash[p].frame # "send_event"

(***************************************************************************)
(* C5.  A reply is awaited exactly for PermissionRequest: recv is called   *)
(* at most once and only for PermissionRequest; when sendall has           *)
(* completed, the next call on the socket is recv for PermissionRequest    *)
(* and close for every other kind, and until that call the run waits at    *)
(* it.                                                                     *)
(***************************************************************************)
C5_ReplyAwaitedIffRequest ==
    \A p \in invocations :
        LET sent == wire[p] # <<>>
            request == StdinIsPermissionRequest(p)
            next == IF request THEN "recv" ELSE "close"
        IN  /\ "recv" \in Calls(p) => request
            /\ Cardinality({i \in 1..Len(io[p]) : io[p][i] = "recv"}) <= 1
            /\ pc[p] = "recv" => request
            /\ pc[p] = "close" => ~request
            /\ sent => \/ pc[p] = next /\ io[p][Len(io[p])] = "sendall"
                       \/ \E i \in 1..(Len(io[p]) - 1) :
                             io[p][i] = "sendall" /\ io[p][i + 1] = next
            /\ ~sent => "recv" \notin Calls(p)

\* A run of an unrecognized kind has sent its message and closed the
\* connection although the authority had answered: the answer was not read.
C5_Witness ==
    \E p \in invocations :
        /\ StdinIsObject(p)
        /\ stdin[p].val = EventInput("Bogus")
        /\ wire[p] # <<>>
        /\ inbox[p].kind = "data"
        /\ sock[p].st = "closed"
        /\ "recv" \notin Calls(p)
        /\ Exited(p)

(***************************************************************************)
(* C6.  A run that waits in recv while nothing has arrived either gets     *)
(* something from the authority, or its wait ends: send_event returns      *)
(* None, nothing is printed, and the run exits with status 0.  It never    *)
(* stays blocked.                                                          *)
(***************************************************************************)
C6_SilentAuthorityTimesOut ==
    \A p \in Procs :
        (p \in invocations /\ pc[p] = "recv" /\ inbox[p].kind = "none")
            ~> (p \in invocations /\
                    \/ inbox[p].kind # "none"
                    \/ /\ Exited(p)
                       /\ exitCode[p] = 0
                       /\ stdout[p] = <<>>
                       /\ response[p] = JNull
                       /\ crash[p] = NoCrash)

\* A run has exited after its recv timed out on a silent authority.
C6_Witness ==
    \E p \in invocations :
        /\ Exited(p)
        /\ elapsed[p] >= TIMEOUT_SECONDS
        /\ inbox[p].kind = "none"
        /\ response_bytes[p] = EmptyBytes
        /\ io[p][Len(io[p])] = "recv"
        /\ sock[p].st = "connected"
        /\ exitCode[p] = 0

(***************************************************************************)
(* C7.  What a run prints is decided by what send_event returned, which    *)
(* is the reply read from the socket or None: an object with decision      *)
(* allow gives one directive with behavior allow and no message; decision  *)
(* deny gives one directive with behavior deny whose message is the        *)
(* reason, or the default message when the reason is missing, null or      *)
(* empty; decision ask, and None, give nothing.  The exit status is 0.     *)
(***************************************************************************)
C7_Directive(decision) ==
    <<[utf8 |-> TRUE, json |-> TRUE, len |-> 64,
       val |-> JObj("hookSpecificOutput" :>
                      JObj(("hookEventName" :> JStr("PermissionRequest")) @@
                           ("decision" :> JObj(decision))))]>>

C7_RenderIsFunctionOfReply ==
    \A p \in invocations :
        (Exited(p) /\ Returned(p)) =>
            LET r == response[p]
                decision == IF r.t = "obj" /\ "decision" \in DOMAIN r.o
                            THEN r.o["decision"] ELSE JNull
                reason == IF r.t = "obj" /\ "reason" \in DOMAIN r.o
                          THEN r.o["reason"] ELSE JNull
                message == IF reason \in {JNull, JStr("")}
                           THEN JStr("Denied by user via ClaudeIsland") ELSE reason
            IN  /\ r # JNull => /\ "recv" \in Calls(p)
                                /\ response_bytes[p].utf8 /\ response_bytes[p].json
                                /\ response_bytes[p].val = r
                /\ decision = JStr("allow") =>
                      /\ stdout[p] = C7_Directive("behavior" :> JStr("allow"))
                      /\ exitCode[p] = 0
                /\ decision = JStr("deny") =>
                      /\ stdout[p] = C7_Directive(("behavior" :> JStr("deny")) @@
                                                  ("message" :> message))
                      /\ exitCode[p] = 0
                /\ decision = JStr("ask") => stdout[p] = <<>> /\ exitCode[p] = 0
                /\ r = JNull => stdout[p] = <<>> /\ exitCode[p] = 0

\* A run has exited after a reply that denies with the reason "x".
C7_Witness ==
    \E p \in invocations :
        /\ Exited(p)
        /\ response[p] = JObj(("decision" :> JStr("deny")) @@ ("reason" :> JStr("x")))
        /\ Len(stdout[p]) = 1
        /\ stdout[p][1].val.o["hookSpecificOutput"].o["decision"].o["message"] = JStr("x")

(***************************************************************************)
(* C8.  A reply that is a JSON document without the expected fields (no    *)
(* object, no decision, a decision that is not allow, deny or ask) ends    *)
(* like no decision: nothing printed, exit status 0, no exception.         *)
(***************************************************************************)
C8_Anomalous(v) ==
    \/ v.t # "obj"
    \/ "decision" \notin DOMAIN v.o
    \/ v.o["decision"] \notin {JStr("allow"), JStr("deny"), JStr("ask")}

C8_AnomalousReplyDegrades ==
    \A p \in invocations :
        ( /\ Exited(p)
          /\ "recv" \in Calls(p)
          /\ response_bytes[p].len > 0
          /\ response_bytes[p].utf8 /\ response_bytes[p].json
          /\ C8_Anomalous(response_bytes[p].val) )
        => /\ stdout[p] = <<>>
           /\ exitCode[p] = 0
           /\ crash[p] = NoCrash

(***************************************************************************)
(* C9.  A run whose input is a Notification of subtype permission_prompt   *)
(* never enters send_event: it makes no system call, has no socket, sends  *)
(* and prints nothing, and its exit status is 0, whatever the endpoint     *)
(* and the credential are.                                                 *)
(***************************************************************************)
C9_PermissionPromptSuppressed ==
    \A p \in invocations :
        ( /\ StdinIsObject(p)
          /\ "hook_event_name" \in DOMAIN stdin[p].val.o
          /\ stdin[p].val.o["hook_event_name"] = JStr("Notification")
          /\ "notification_type" \in DOMAIN stdin[p].val.o
          /\ stdin[p].val.o["notification_type"] = JStr("permission_prompt") )
        => /\ pc[p] \in {"main", "build", "classify", "exited"}
           /\ io[p] = <<>>
           /\ sock[p].st = "none"
           /\ wire[p] = <<>>
           /\ stdout[p] = <<>>
           /\ "status" \notin DOMAIN state[p]
           /\ Exited(p) => exitCode[p] = 0 /\ crash[p] = NoCrash

\* A permission_prompt Notification has ended its run while the endpoint
\* and the credential would have let a message through.
C9_Witness ==
    \E p \in invocations :
        /\ StdinIsObject(p)
        /\ DictGet(stdin[p].val.o, "notification_type", JNull) = JStr("permission_prompt")
        /\ ~EndpointUnsafe
        /\ tokenFile = File(getuid, S_IFREG + 384, TRUE, <<"a", "b">>)
        /\ Exited(p)
        /\ exitCode[p] = 0

(***************************************************************************)
(* C10.  A run whose standard input is no JSON document exits with a       *)
(* status other than 0 straight from the read: it makes no system call,    *)
(* creates no socket, sends nothing and prints nothing.                    *)
(***************************************************************************)
C10_MalformedInputFatal ==
    \A p \in invocations :
        (~stdin[p].utf8 \/ ~stdin[p].json) =>
            /\ pc[p] \in {"main", "exited"}
            /\ io[p] = <<>>
            /\ auth_token[p] = JNull
            /\ sock[p].st = "none"
            /\ wire[p] = <<>>
            /\ stdout[p] = <<>>
            /\ Exited(p) => exitCode[p] > 0

\* A run has exited on text that is no JSON although the endpoint and the
\* credential were usable.
C10_Witness ==
    \E p \in invocations :
        /\ stdin[p] = Bytes(TRUE, FALSE, JNull, 8)
        /\ ~EndpointUnsafe
        /\ tokenFile = File(getuid, S_IFREG + 384, TRUE, <<"a", "b">>)
        /\ Exited(p)
        /\ exitCode[p] = 1

(***************************************************************************)
(* C11.  A run prints at most one JSON object, and prints one only when    *)
(* its event kind is PermissionRequest and the reply it read is an object  *)
(* whose decision is allow or deny; in every other run standard output     *)
(* stays empty.                                                            *)
(***************************************************************************)
C11_AtMostOneDirective ==
    \A p \in invocations :
        /\ Len(stdout[p]) <= 1
        /\ stdout[p] # <<>> =>
              /\ StdinIsPermissionRequest(p)
              /\ stdout[p][1].utf8 /\ stdout[p][1].json /\ stdout[p][1].val.t = "obj"
              /\ "recv" \in Calls(p)
              /\ response_bytes[p].utf8 /\ response_bytes[p].json
              /\ response_bytes[p].val.t = "obj"
              /\ "decision" \in DOMAIN response_bytes[p].val.o
              /\ response_bytes[p].val.o["decision"] \in {JStr("allow"), JStr("deny")}
              /\ Exited(p)

\* A PermissionRequest run has exited after an allow and printed one object.
C11_Witness ==
    \E p \in invocations :
        /\ Exited(p)
        /\ StdinIsPermissionRequest(p)
        /\ response_bytes[p].val = JObj("decision" :> JStr("allow"))
        /\ Len(stdout[p]) = 1

(***************************************************************************)
(* C12.  A run calls connect at most once and sendall at most once, and    *)
(* writes at most one message; send_event is entered at most once; and a   *)
(* PermissionRequest run never reaches the end of main, where the other    *)
(* kinds call send_event: it exits from the branch that rendered.          *)
(***************************************************************************)
C12_Count(p, call) == Cardinality({i \in 1..Len(io[p]) : io[p][i] = call})

C12_SingleAttempt ==
    \A p \in invocations :
        /\ C12_Count(p, "exists(SOCKET_PATH)") <= 1
        /\ C12_Count(p, "socket") <= 1
        /\ C12_Count(p, "connect") <= 1
        /\ C12_Count(p, "sendall") <= 1
        /\ Len(wire[p]) <= 1
        /\ (wire[p] # <<>> => "sendall" \in Calls(p))
        /\ (StdinIsPermissionRequest(p) => pc[p] # "main_end")
        /\ (~StdinIsPermissionRequest(p) => pc[p] # "render")

\* A run has exited after its one connect was refused: nothing was sent.
C12_Witness ==
    \E p \in invocations :
        /\ Exited(p)
        /\ io[p] # <<>>
        /\ io[p][Len(io[p])] = "connect"
        /\ sock[p].st = "open"
        /\ wire[p] = <<>>
        /\ exitCode[p] = 0

(***************************************************************************)
(* C13.  Whenever send_event has created a socket, the socket has been     *)
(* closed by the time send_event has returned, whatever the path: message  *)
(* sent, reply received, receive timed out, or an error of connect,        *)
(* sendall, recv or of parsing the reply.  sock[p].st = "closed" records   *)
(* the close() calls of lines 122 and 126, the only ones of the program.   *)
(***************************************************************************)
C13_SocketClosedOnReturn ==
    \A p \in invocations :
        (Returned(p) /\ "socket" \in Calls(p)) => sock[p].st = "closed"

(***************************************************************************)
(* C14.  The classifier is total.  Every JSON object on standard input,    *)
(* except the permission_prompt Notification, gets exactly the status of   *)
(* the table below, an unrecognized or missing event kind gets "unknown",  *)
(* and the classified state is handed to send_event: the run enters        *)
(* send_event, and a message it writes carries that status.                *)
(***************************************************************************)
C14_Table ==
    [UserPromptSubmit |-> "processing", PostToolUse |-> "processing",
     PreToolUse |-> "running_tool", PermissionRequest |-> "waiting_for_approval",
     Stop |-> "waiting_for_input", SubagentStop |-> "waiting_for_input",
     SessionStart |-> "waiting_for_input", SessionEnd |-> "ended",
     PreCompact |-> "compacting"]

C14_Kind(p) ==
    IF "hook_event_name" \in DOMAIN stdin[p].val.o
    THEN stdin[p].val.o["hook_event_name"] ELSE JNull

C14_Subtype(p) ==
    IF "notification_type" \in DOMAIN stdin[p].val.o
    THEN stdin[p].val.o["notification_type"] ELSE JNull

C14_Expected(p) ==
    LET kind == C14_Kind(p)
    IN  IF kind.t = "str" /\ kind.s \in DOMAIN C14_Table THEN C14_Table[kind.s]
        ELSE IF kind = JStr("Notification")
        THEN IF C14_Subtype(p) = JStr("idle_prompt")
             THEN "waiting_for_input" ELSE "notification"
        ELSE "unknown"

C14_ClassifierTotal ==
    \A p \in invocations :
        (/\ StdinIsObject(p)
         /\ pc[p] \notin {"main", "build", "classify"}
         /\ ~(C14_Kind(p) = JStr("Notification")
              /\ C14_Subtype(p) = JStr("permission_prompt")))
        => /\ "status" \in DOMAIN state[p]
           /\ state[p]["status"] = JStr(C14_Expected(p))
           /\ pc[p] = "verify_exists" \/ "exists(SOCKET_PATH)" \in Calls(p)
           /\ \A i \in 1..Len(wire[p]) :
                 wire[p][i].val.o["status"] = JStr(C14_Expected(p))

\* A SubagentStop has been sent as waiting_for_input.
C14_Witness ==
    \E p \in invocations :
        /\ StdinIsObject(p)
        /\ C14_Kind(p) = JStr("SubagentStop")
        /\ wire[p] # <<>>
        /\ wire[p][1].val.o["status"] = JStr("waiting_for_input")

\* An event of unrecognized kind has been sent as unknown.
C14_WitnessUnknown ==
    \E p \in invocations :
        /\ StdinIsObject(p)
        /\ C14_Kind(p) \in {JStr("Bogus"), JNull, JNum(7)}
        /\ wire[p] # <<>>
        /\ wire[p][1].val.o["status"] = JStr("unknown")

(***************************************************************************)
(* C19.  verify_socket_security looks at existence, then owner, then kind, *)
(* and returns at the first check that fails.  Its result is ok exactly    *)
(* when the path is there, belongs to the current user and is a socket; a  *)
(* reason comes with the result exactly when it is not ok; a path of       *)
(* another user that is no socket gets the owner reason; and a path that   *)
(* vanished between the existence check and the stat gives not-ok with     *)
(* the text of the error, no exception.  Stated on the two steps of the    *)
(* function, with the object that is at the path when the step is taken.   *)
(***************************************************************************)
C19_IsSocket(f) == f.st_mode - (f.st_mode % 4096) = 49152

C19_VerifySteps(p) ==
    /\ (pc[p] = "verify_exists" /\ pc'[p] # pc[p]) =>
          IF sockFile.exists
          THEN pc'[p] = "verify_stat" /\ verdict'[p] = <<>>
          ELSE /\ verdict'[p] = <<FALSE, JStr("Socket does not exist")>>
               /\ pc'[p] \in {"render", "main_end"}
               /\ response'[p] = JNull
               /\ "stat(SOCKET_PATH)" \notin Calls(p)
    /\ (pc[p] = "verify_stat" /\ pc'[p] # pc[p]) =>
          /\ crash'[p] = NoCrash
          /\ Len(verdict'[p]) = 2
          /\ verdict'[p][1] =
                (/\ sockFile.exists
                 /\ sockFile.st_uid = 501
                 /\ C19_IsSocket(sockFile))
          /\ verdict'[p][1] <=> (verdict'[p][2] = JNull)
          /\ verdict'[p][1] <=> (pc'[p] = "token_exists")
          /\ ~verdict'[p][1] => pc'[p] \in {"render", "main_end"}
          /\ ~sockFile.exists =>
                verdict'[p][2] = JStr("[Errno 2] No such file or directory")
          /\ (sockFile.exists /\ sockFile.st_uid # 501) =>
                verdict'[p][2] = JStr("Socket owned by other uid")
          /\ (sockFile.exists /\ sockFile.st_uid = 501 /\ ~C19_IsSocket(sockFile)) =>
                verdict'[p][2] = JStr("Path is not a socket")

C19_VerifyOrderAndResult ==
    [][\A p \in Procs : p \in invocations => C19_VerifySteps(p)]_vars

\* The path vanished between exists and stat: not ok, with the error text,
\* and send_event has returned None.
C19_Witness ==
    \E p \in invocations :
        /\ verdict[p] = <<FALSE, JStr("[Errno 2] No such file or directory")>>
        /\ Returned(p)
        /\ crash[p] = NoCrash

\* A regular file of another user was found: the owner reason is given.
C19_WitnessBoth ==
    \E p \in invocations :
        /\ sockFile.exists /\ sockFile.st_uid # 501 /\ ~C19_IsSocket(sockFile)
        /\ verdict[p] = <<FALSE, JStr("Socket owned by other uid")>>

(***************************************************************************)
(* C17.  A run is never connected to, and never writes to, an endpoint     *)
(* that does not belong to the current user, whatever the other processes  *)
(* put at the endpoint path and whenever they do it.  sock[p].peer is the  *)
(* owner of the socket that connect() reached.                             *)
(***************************************************************************)
C17_PeerIsCurrentUser ==
    \A p \in invocations :
        /\ sock[p].st \in {"connected", "closed"} => sock[p].peer = 501
        /\ wire[p] # <<>> => sock[p].peer = 501

(***************************************************************************)
(* C18.  A message never carries a credential that was read from a file    *)
(* which, when it was opened and read, belonged to another user or had a   *)
(* group or other permission bit, whatever the other processes do to the   *)
(* file between the stat and the open.  opened[p] is the file as it was    *)
(* when open() returned.                                                   *)
(***************************************************************************)
C18_SentCredentialWasSafeWhenRead ==
    \A p \in invocations :
        wire[p] # <<>> =>
            /\ opened[p].exists
            /\ opened[p].st_uid = 501
            /\ opened[p].st_mode % 64 = 0

(***************************************************************************)
(* C16.  No step of the script creates, removes, writes or changes the     *)
(* owner or the mode of the endpoint path or of the credential file: in    *)
(* every step in which the object at one of the two paths changes, the     *)
(* script has not moved, so the step is one of another process.            *)
(***************************************************************************)
C16_ReporterLeavesPathsAlone ==
    [][(sockFile' # sockFile \/ tokenFile' # tokenFile)
          => UNCHANGED <<pc, io, data, state, auth_token, sock, wire, elapsed,
                         response_bytes, response, stdout, exitCode, crash,
                         verdict, opened>>]_vars

\* A run went through every call it can make on the two paths and on the
\* socket, and both objects are as the run found them.
C16_Witness ==
    \E p \in invocations :
        /\ Exited(p)
        /\ {"stat(SOCKET_PATH)", "open(TOKEN_PATH)", "connect", "sendall", "close"}
              \subseteq Calls(p)
        /\ tokenFile = opened[p]
        /\ sockFile.exists /\ sockFile.st_uid = sock[p].peer

(***************************************************************************)
(* C20.  In a run the system calls come only in the order: endpoint        *)
(* verification, credential read, socket and connect, send (then receive   *)
(* and close).  Every message written carries an _auth_token that is not   *)
(* empty and is the content of the credential file, as the run read it,    *)
(* without its leading and trailing whitespace.  A credential file that is *)
(* missing, empty or all whitespace never leads to a socket or a           *)
(* connection.                                                             *)
(***************************************************************************)
C20_Rank ==
    [c \in {"exists(SOCKET_PATH)", "stat(SOCKET_PATH)", "exists(TOKEN_PATH)",
            "stat(TOKEN_PATH)", "open(TOKEN_PATH)", "socket", "connect",
            "sendall", "recv", "close"} |->
        CASE c = "exists(SOCKET_PATH)" -> 1
          [] c = "stat(SOCKET_PATH)" -> 2
          [] c = "exists(TOKEN_PATH)" -> 3
          [] c = "stat(TOKEN_PATH)" -> 4
          [] c = "open(TOKEN_PATH)" -> 5
          [] c = "socket" -> 6
          [] c = "connect" -> 7
          [] c = "sendall" -> 8
          [] c = "recv" -> 9
          [] c = "close" -> 10]

C20_Blank(c) == c = " " \/ c = "\n"

\* tok is chars without its leading and trailing blanks.
C20_IsStripped(tok, chars) ==
    \E i \in 1..(Len(chars) + 1) : \E j \in 0..Len(chars) :
        /\ tok = SubSeq(chars, i, j)
        /\ \A k \in 1..Len(chars) : (k < i \/ k > j) => C20_Blank(chars[k])
        /\ tok # <<>> => ~C20_Blank(tok[1]) /\ ~C20_Blank(tok[Len(tok)])

C20_OrderAndCredential ==
    \A p \in invocations :
        /\ \A i, j \in 1..Len(io[p]) : i < j => C20_Rank[io[p][i]] < C20_Rank[io[p][j]]
        /\ "socket" \in Calls(p) =>
              {"exists(SOCKET_PATH)", "stat(SOCKET_PATH)", "open(TOKEN_PATH)"}
                  \subseteq Calls(p)
        /\ "sendall" \in Calls(p) => "connect" \in Calls(p)
        /\ \A i \in 1..Len(wire[p]) :
              /\ "_auth_token" \in DOMAIN wire[p][i].val.o
              /\ wire[p][i].val.o["_auth_token"] = auth_token[p]
              /\ auth_token[p].t = "str"
              /\ auth_token[p].chars # <<>>
              /\ opened[p].exists
              /\ C20_IsStripped(auth_token[p].chars, opened[p].chars)
        /\ (~tokenFile.exists \/ \A k \in 1..Len(tokenFile.chars) :
                                    C20_Blank(tokenFile.chars[k]))
              => /\ "socket" \notin Calls(p)
                 /\ "connect" \notin Calls(p)
                 /\ wire[p] = <<>>

\* A message went out whose credential is the file's text less the blanks
\* around it.
C20_Witness ==
    \E p \in invocations :
        /\ wire[p] # <<>>
        /\ opened[p].exists
        /\ opened[p].chars = <<" ", "a", "b", "\n">>
        /\ wire[p][1].val.o["_auth_token"] = JText(<<"a", "b">>)

\* A whitespace-only credential file was read and send_event returned
\* without creating a socket.
C20_WitnessBlank ==
    \E p \in invocations :
        /\ Returned(p)
        /\ opened[p].exists
        /\ opened[p].chars = <<" ", "\n">>
        /\ "socket" \notin Calls(p)

(***************************************************************************)
(* C15.  Two runs that overlap, same event or not, do not touch each       *)
(* other.  Each has its own connection: the bytes a run receives are the   *)
(* bytes the authority put on that run's connection, and a step of one run *)
(* changes nothing of the other run nor of what waits on the other's       *)
(* connection.  What a run prints and its exit status are a function of    *)
(* the reply it received on its own connection alone.                      *)
(***************************************************************************)
C15_Run(p) ==
    <<pc[p], data[p], state[p], auth_token[p], sock[p], wire[p], elapsed[p],
      response_bytes[p], response[p], stdout[p], exitCode[p], crash[p], io[p],
      verdict[p], opened[p]>>

C15_StepIsLocal ==
    \A p, q \in Procs :
        (p # q /\ C15_Run(p)' # C15_Run(p)) =>
            /\ C15_Run(q)' = C15_Run(q)
            /\ inbox'[q] = inbox[q]
            /\ response_bytes'[p] # response_bytes[p] =>
                  /\ inbox[p].kind = "data"
                  /\ response_bytes'[p] =
                        IF inbox[p].bytes.len > 4096
                        THEN [inbox[p].bytes EXCEPT !.json = FALSE, !.val = JNull,
                                                    !.len = 4096]
                        ELSE inbox[p].bytes

C15_OwnReplyDecides ==
    \A p \in invocations :
        Exited(p) =>
            LET b == response_bytes[p]
                doc == IF b.utf8 /\ b.json THEN b.val ELSE JNull
                decision == IF doc.t = "obj" /\ "decision" \in DOMAIN doc.o
                            THEN doc.o["decision"] ELSE JNull
                reason == IF doc.t = "obj" /\ "reason" \in DOMAIN doc.o
                          THEN doc.o["reason"] ELSE JNull
                message == IF reason \in {JNull, JStr("")}
                           THEN JStr("Denied by user via ClaudeIsland") ELSE reason
                dies == \/ b.len > 0 /\ ~b.utf8
                        \/ doc \in {JBool(TRUE), JNum(5), JStr("allow"),
                                    JList(<<JStr("allow")>>)}
            IN  /\ stdout[p] =
                      IF decision = JStr("allow")
                      THEN C7_Directive("behavior" :> JStr("allow"))
                      ELSE IF decision = JStr("deny")
                      THEN C7_Directive(("behavior" :> JStr("deny")) @@
                                        ("message" :> message))
                      ELSE <<>>
                /\ exitCode[p] = IF dies THEN 1 ELSE 0

C15_RunsIndependent == []C15_OwnReplyDecides /\ [][C15_StepIsLocal]_vars

\* Two runs with the same event record: one was allowed, the other denied,
\* and each printed the decision of its own connection.
C15_Witness ==
    /\ invocations = {1, 2}
    /\ stdin[1] = stdin[2]
    /\ Exited(1) /\ Exited(2)
    /\ response_bytes[1].val = JObj("decision" :> JStr("allow"))
    /\ response_bytes[2].val =
          JObj(("decision" :> JStr("deny")) @@ ("reason" :> JStr("x")))
    /\ stdout[1] = C7_Directive("behavior" :> JStr("allow"))
    /\ stdout[2] # <<>> /\ stdout[2] # stdout[1]

=============================================================================
